---- MODULE Spec2Model ----
(***************************************************************************)
(* Model of the bidirectional text engine of ArbSh:                        *)
(*   src/src/i18n/bidi/bidi.c  (get_char_type, create_bidi_run,            *)
(*                              process_runs, reorder_runs,                *)
(*                              process_bidirectional_text)                *)
(*   src/src/utf8.c            (get_utf8_char_length, utf8_to_codepoint,   *)
(*                              codepoint_to_utf8)                         *)
(* Text is a sequence of bytes 0..255; byte offset k of the C buffer is    *)
(* element k+1 of the sequence.  Bit masks of the C code are written with  *)
(* \div and % on non-negative integers.                                    *)
(***************************************************************************)
EXTENDS Integers, Sequences, FiniteSets, TLC

(* ------------------------------------------------------------------ *)
(* Bounds of the model                                                *)
(* ------------------------------------------------------------------ *)
MaxChars == 2
MaxCore == 4
MaxLetters == 5
MaxBytes == 3
DeepNest == 200
LongPlain == 63
MaxCodePoint == 8500

(* ------------------------------------------------------------------ *)
(* Program constants                                                  *)
(* ------------------------------------------------------------------ *)
BIDI_TYPE_L == 0
BIDI_TYPE_R == 1
BIDI_TYPE_EN == 2
BIDI_TYPE_AN == 5
BIDI_TYPE_B == 7
BIDI_TYPE_S == 8
BIDI_TYPE_WS == 9
BIDI_TYPE_ON == 10
BIDI_TYPE_AL == 12
BIDI_TYPE_LRE == 13
BIDI_TYPE_RLE == 14
BIDI_TYPE_PDF == 15
BIDI_TYPE_LRO == 16
BIDI_TYPE_RLO == 17
BIDI_TYPE_LRI == 18
BIDI_TYPE_RLI == 19
BIDI_TYPE_FSI == 20
BIDI_TYPE_PDI == 21
BIDI_TYPE_LRM == 22
BIDI_TYPE_RLM == 23

MAX_DEPTH == 125

(* ------------------------------------------------------------------ *)
(* UTF-8 codec (src/src/utf8.c)                                       *)
(* ------------------------------------------------------------------ *)

\* Mutant of get_utf8_char_length: an invalid first byte gives 0.
get_utf8_char_length_InvalidZero(first_byte) ==
    IF first_byte \div 128 = 0 THEN 1
    ELSE IF first_byte \div 32 = 6 THEN 2
    ELSE IF first_byte \div 16 = 14 THEN 3
    ELSE IF first_byte \div 8 = 30 THEN 4
    ELSE 0

\* (first_byte & 0x80) == 0, (& 0xE0) == 0xC0, (& 0xF0) == 0xE0, (& 0xF8) == 0xF0
get_utf8_char_length(first_byte) ==
    IF first_byte \div 128 = 0 THEN 1
    ELSE IF first_byte \div 32 = 6 THEN 2
    ELSE IF first_byte \div 16 = 14 THEN 3
    ELSE IF first_byte \div 8 = 30 THEN 4
    ELSE 1

\* utf8_char is the 4-byte buffer [0..3 -> byte]; the result is the pair
\* (return value, *codepoint).  The buffer pointer is never NULL at the call
\* sites of bidi.c, and no continuation byte is inspected.
utf8_to_codepoint(utf8_char) ==
    LET len == get_utf8_char_length(utf8_char[0]) IN
    IF len = 1 THEN [ok |-> 1, codepoint |-> utf8_char[0]]
    ELSE IF len = 2 THEN
        [ok |-> 1, codepoint |-> (utf8_char[0] % 32) * 64 + (utf8_char[1] % 64)]
    ELSE IF len = 3 THEN
        [ok |-> 1, codepoint |-> (utf8_char[0] % 16) * 4096
                                 + (utf8_char[1] % 64) * 64 + (utf8_char[2] % 64)]
    ELSE IF len = 4 THEN
        [ok |-> 1, codepoint |-> (utf8_char[0] % 8) * 262144
                                 + (utf8_char[1] % 64) * 4096
                                 + (utf8_char[2] % 64) * 64 + (utf8_char[3] % 64)]
    ELSE [ok |-> 0, codepoint |-> 0]

\* Mutant of codepoint_to_utf8: the 2-byte branch takes 0x800 as well.
codepoint_to_utf8_WideTwoByte(codepoint) ==
    IF codepoint < 128 THEN << codepoint >>
    ELSE IF codepoint <= 2048 THEN
        << 192 + (codepoint \div 64), 128 + (codepoint % 64) >>
    ELSE IF codepoint < 65536 THEN
        << 224 + (codepoint \div 4096), 128 + ((codepoint \div 64) % 64),
           128 + (codepoint % 64) >>
    ELSE IF codepoint < 1114112 THEN
        << 240 + (codepoint \div 262144), 128 + ((codepoint \div 4096) % 64),
           128 + ((codepoint \div 64) % 64), 128 + (codepoint % 64) >>
    ELSE << 63 >>

\* The bytes written to utf8_char, as a sequence (its length is the return value).
codepoint_to_utf8(codepoint) ==
    IF codepoint < 128 THEN << codepoint >>
    ELSE IF codepoint < 2048 THEN
        << 192 + (codepoint \div 64), 128 + (codepoint % 64) >>
    ELSE IF codepoint < 65536 THEN
        << 224 + (codepoint \div 4096), 128 + ((codepoint \div 64) % 64),
           128 + (codepoint % 64) >>
    ELSE IF codepoint < 1114112 THEN
        << 240 + (codepoint \div 262144), 128 + ((codepoint \div 4096) % 64),
           128 + ((codepoint \div 64) % 64), 128 + (codepoint % 64) >>
    ELSE << 63 >>

(* ------------------------------------------------------------------ *)
(* Character classifier (src/src/i18n/bidi/bidi.c)                    *)
(* ------------------------------------------------------------------ *)
\* Mutant of get_char_type: the segment separator test comes before the
\* whitespace test, so TAB is a segment separator.
get_char_type_SeparatorFirst(codepoint) ==
    IF (codepoint >= 1536 /\ codepoint <= 1791)
       \/ (codepoint >= 1872 /\ codepoint <= 1919)
       \/ (codepoint >= 2208 /\ codepoint <= 2303) THEN BIDI_TYPE_AL
    ELSE IF codepoint >= 1424 /\ codepoint <= 1535 THEN BIDI_TYPE_R
    ELSE IF codepoint >= 48 /\ codepoint <= 57 THEN BIDI_TYPE_EN
    ELSE IF codepoint = 8206 THEN BIDI_TYPE_LRM
    ELSE IF codepoint = 8207 THEN BIDI_TYPE_RLM
    ELSE IF codepoint = 8234 THEN BIDI_TYPE_LRE
    ELSE IF codepoint = 8235 THEN BIDI_TYPE_RLE
    ELSE IF codepoint = 8236 THEN BIDI_TYPE_PDF
    ELSE IF codepoint = 8237 THEN BIDI_TYPE_LRO
    ELSE IF codepoint = 8238 THEN BIDI_TYPE_RLO
    ELSE IF codepoint = 8294 THEN BIDI_TYPE_LRI
    ELSE IF codepoint = 8295 THEN BIDI_TYPE_RLI
    ELSE IF codepoint = 8296 THEN BIDI_TYPE_FSI
    ELSE IF codepoint = 8297 THEN BIDI_TYPE_PDI
    ELSE IF codepoint = 9 \/ codepoint = 31 THEN BIDI_TYPE_S
    ELSE IF codepoint = 32 \/ codepoint = 160 THEN BIDI_TYPE_WS
    ELSE IF codepoint = 10 \/ codepoint = 13 \/ codepoint = 8233 THEN BIDI_TYPE_B
    ELSE IF codepoint < 128 THEN BIDI_TYPE_L
    ELSE BIDI_TYPE_ON

\* The ordered range checks of get_char_type; the first match returns.
get_char_type(codepoint) ==
    IF (codepoint >= 1536 /\ codepoint <= 1791)
       \/ (codepoint >= 1872 /\ codepoint <= 1919)
       \/ (codepoint >= 2208 /\ codepoint <= 2303) THEN BIDI_TYPE_AL
    ELSE IF codepoint >= 1424 /\ codepoint <= 1535 THEN BIDI_TYPE_R
    ELSE IF codepoint >= 48 /\ codepoint <= 57 THEN BIDI_TYPE_EN
    ELSE IF (codepoint >= 1632 /\ codepoint <= 1641)
            \/ (codepoint >= 1776 /\ codepoint <= 1785) THEN BIDI_TYPE_AN
    ELSE IF codepoint = 8206 THEN BIDI_TYPE_LRM
    ELSE IF codepoint = 8207 THEN BIDI_TYPE_RLM
    ELSE IF codepoint = 8234 THEN BIDI_TYPE_LRE
    ELSE IF codepoint = 8235 THEN BIDI_TYPE_RLE
    ELSE IF codepoint = 8236 THEN BIDI_TYPE_PDF
    ELSE IF codepoint = 8237 THEN BIDI_TYPE_LRO
    ELSE IF codepoint = 8238 THEN BIDI_TYPE_RLO
    ELSE IF codepoint = 8294 THEN BIDI_TYPE_LRI
    ELSE IF codepoint = 8295 THEN BIDI_TYPE_RLI
    ELSE IF codepoint = 8296 THEN BIDI_TYPE_FSI
    ELSE IF codepoint = 8297 THEN BIDI_TYPE_PDI
    ELSE IF codepoint = 32 \/ codepoint = 9 \/ codepoint = 160 THEN BIDI_TYPE_WS
    ELSE IF codepoint = 10 \/ codepoint = 13 \/ codepoint = 8233 THEN BIDI_TYPE_B
    ELSE IF codepoint = 9 \/ codepoint = 31 THEN BIDI_TYPE_S
    ELSE IF codepoint < 128 THEN BIDI_TYPE_L
    ELSE BIDI_TYPE_ON

\* Mutant of IsFormattingType: the marks LRM and RLM are dropped too.
IsFormattingType_WithMarks(char_type) ==
    char_type \in {BIDI_TYPE_LRE, BIDI_TYPE_RLE, BIDI_TYPE_PDF, BIDI_TYPE_LRO,
                   BIDI_TYPE_RLO, BIDI_TYPE_LRI, BIDI_TYPE_RLI, BIDI_TYPE_FSI,
                   BIDI_TYPE_PDI, BIDI_TYPE_LRM, BIDI_TYPE_RLM}

\* The test of reorder_runs that decides whether a character is copied.
IsFormattingType(char_type) ==
    char_type \in {BIDI_TYPE_LRE, BIDI_TYPE_RLE, BIDI_TYPE_PDF, BIDI_TYPE_LRO,
                   BIDI_TYPE_RLO, BIDI_TYPE_LRI, BIDI_TYPE_RLI, BIDI_TYPE_FSI,
                   BIDI_TYPE_PDI}

\* (current_level + 2) & ~1
EvenLevel(current) == ((current + 2) \div 2) * 2

\* (current_level + 1) | 1
OddLevel(current) == ((current + 1) \div 2) * 2 + 1

(* ------------------------------------------------------------------ *)
(* State                                                              *)
(* ------------------------------------------------------------------ *)
VARIABLES
    text,            \* bytes of the caller's buffer (offset k is text[k+1])
    text_null,       \* TRUE when the caller passed text == NULL
    output_null,     \* TRUE when the caller passed output == NULL
    length,          \* the length argument
    is_rtl,          \* the is_rtl argument
    junk,            \* value of every byte outside [0, length) of the buffer
    pc,              \* position of the call: "call", "segment", "final",
                     \* "returned", "reorder", "free", "done"
    i, run_start, current_level,          \* locals of process_runs
    stack, stack_top,                     \* stack[] (written slots only), stack_top
    override_status, isolate_status,
    runs,            \* the run list, in list order; <<>> is NULL
    nalloc,          \* number of successful malloc calls so far
    live,            \* ids of the nodes allocated and not freed
    freed,           \* ids passed to free(), in order
    alloc_failed,    \* TRUE once a malloc returned NULL
    output,          \* bytes written to the output buffer (offset k is output[k+1])
    out_pos,         \* local of reorder_runs
    level, rnext,    \* loop position of reorder_runs: level, index of next run
    result,          \* return value of process_bidirectional_text (-1: not returned)
    oob_read,        \* TRUE once a byte outside [0, length) of text was read
    uninit_read,     \* TRUE once an unwritten byte of utf8_buf was decoded
    buf_overrun,     \* TRUE once more than 4 bytes were copied into utf8_buf
    uaf,             \* TRUE once a freed run node was read
    emitted,         \* history: the runs reorder_runs has copied, in order, each
                     \* with the output offsets before and after its copy
    fn,              \* direct call of a library function: "none", "ready", or
                     \* the name of the function that has returned
    arg_codepoint,   \* its codepoint argument (-1: none)
    arg_utf8_char,   \* its 4-byte buffer utf8_char (offsets 0..3)
    utf8_len,        \* the length codepoint_to_utf8 returned (-1: not called)
    ret,             \* return value of the last function called (-1: none)
    out_codepoint    \* the value utf8_to_codepoint stored in *codepoint

vars == << text, text_null, output_null, length, is_rtl, junk, pc, i, run_start,
           current_level, stack, stack_top, override_status, isolate_status, runs,
           nalloc, live, freed, alloc_failed, output, out_pos, level, rnext,
           result, oob_read, uninit_read, buf_overrun, uaf, emitted, fn,
           arg_codepoint, arg_utf8_char, utf8_len, ret, out_codepoint >>

\* The variables of a call of process_bidirectional_text.
engine_vars == << text, text_null, output_null, length, is_rtl, junk, pc, i,
                  run_start, current_level, stack, stack_top, override_status,
                  isolate_status, runs, nalloc, live, freed, alloc_failed,
                  output, out_pos, level, rnext, result, oob_read, uninit_read,
                  buf_overrun, uaf, emitted >>

\* The variables of a direct call of get_char_type or of the UTF-8 functions.
codec_vars == << fn, arg_codepoint, arg_utf8_char, utf8_len, ret, out_codepoint >>

\* text[k] as the C code reads it: a byte of the buffer, or whatever lies
\* outside it.
Mem(k) == IF k >= 0 /\ k < Len(text) THEN text[k + 1] ELSE junk

InBuffer(k) == k >= 0 /\ k < length

Max2(a, b) == IF a >= b THEN a ELSE b
Min2(a, b) == IF a <= b THEN a ELSE b

(* ------------------------------------------------------------------ *)
(* Run segmentation (process_runs)                                    *)
(* ------------------------------------------------------------------ *)

\* stack[idx] = v; slots never written are not in the domain.
StackWrite(stk, idx, v) ==
    [k \in (DOMAIN stk) \cup {idx} |-> IF k = idx THEN v ELSE stk[k]]

\* Mutant of PushCase: the guard lets stack_top reach MAX_DEPTH.
PushCase_OffByOne(s, pushed, ov, iso) ==
    IF s.stack_top < MAX_DEPTH
    THEN [s EXCEPT !.stack_top = s.stack_top + 1,
                   !.stack = StackWrite(s.stack, s.stack_top + 1, pushed),
                   !.current_level = pushed,
                   !.override_status = ov,
                   !.isolate_status = iso,
                   !.create_new_run = 1]
    ELSE s

\* The body shared by the LRE/RLE/LRO/RLO/LRI/RLI/FSI cases: the guarded push.
\* s is the record of the locals; pushed is the level stored; ov and iso are
\* the new override_status and isolate_status of the case.
PushCase(s, pushed, ov, iso) ==
    IF s.stack_top < MAX_DEPTH - 1
    THEN [s EXCEPT !.stack_top = s.stack_top + 1,
                   !.stack = StackWrite(s.stack, s.stack_top + 1, pushed),
                   !.current_level = pushed,
                   !.override_status = ov,
                   !.isolate_status = iso,
                   !.create_new_run = 1]
    ELSE s

\* Mutant of PdfCase: the pop puts override_status back to none.
PdfCase_ResetsOverride(s) ==
    IF s.stack_top > 0
    THEN [s EXCEPT !.stack_top = s.stack_top - 1,
                   !.current_level = s.stack[s.stack_top - 1],
                   !.override_status = -1,
                   !.create_new_run = 1]
    ELSE s

\* The PDF case.
PdfCase(s) ==
    IF s.stack_top > 0
    THEN [s EXCEPT !.stack_top = s.stack_top - 1,
                   !.current_level = s.stack[s.stack_top - 1],
                   !.create_new_run = 1]
    ELSE s

\* Mutant of PdiCase: the pop leaves isolate_status set.
PdiCase_KeepsFlag(s) ==
    IF s.isolate_status # 0 /\ s.stack_top > 0
    THEN [s EXCEPT !.stack_top = s.stack_top - 1,
                   !.current_level = s.stack[s.stack_top - 1],
                   !.create_new_run = 1]
    ELSE s

\* Mutant of PdiCase: the pop does not test isolate_status.
PdiCase_IgnoresFlag(s) ==
    IF s.stack_top > 0
    THEN [s EXCEPT !.stack_top = s.stack_top - 1,
                   !.current_level = s.stack[s.stack_top - 1],
                   !.isolate_status = 0,
                   !.create_new_run = 1]
    ELSE s

\* The PDI case.
PdiCase(s) ==
    IF s.isolate_status # 0 /\ s.stack_top > 0
    THEN [s EXCEPT !.stack_top = s.stack_top - 1,
                   !.current_level = s.stack[s.stack_top - 1],
                   !.isolate_status = 0,
                   !.create_new_run = 1]
    ELSE s

\* The default case: the override, then the candidate level.
DefaultCase(s, char_type) ==
    LET ct == IF s.override_status = 0 THEN BIDI_TYPE_L
              ELSE IF s.override_status = 1 THEN BIDI_TYPE_R
              ELSE char_type
        nl == IF ct = BIDI_TYPE_AL \/ ct = BIDI_TYPE_R THEN OddLevel(s.current_level)
              ELSE IF ct = BIDI_TYPE_L THEN EvenLevel(s.current_level)
              ELSE s.new_level
    IN [s EXCEPT !.new_level = nl,
                 !.create_new_run = IF nl # s.current_level THEN 1 ELSE 0]

\* Mutant of SwitchCharType: FSI pushes an even level, like LRI.
SwitchCharType_FsiAsLri(s, char_type) ==
    IF char_type = BIDI_TYPE_LRE
        THEN PushCase(s, EvenLevel(s.current_level), s.override_status, s.isolate_status)
    ELSE IF char_type = BIDI_TYPE_RLE
        THEN PushCase(s, OddLevel(s.current_level), s.override_status, s.isolate_status)
    ELSE IF char_type = BIDI_TYPE_PDF
        THEN PdfCase(s)
    ELSE IF char_type = BIDI_TYPE_LRO
        THEN PushCase(s, EvenLevel(s.current_level), 0, s.isolate_status)
    ELSE IF char_type = BIDI_TYPE_RLO
        THEN PushCase(s, OddLevel(s.current_level), 1, s.isolate_status)
    ELSE IF char_type = BIDI_TYPE_LRI
        THEN PushCase(s, EvenLevel(s.current_level), s.override_status, 1)
    ELSE IF char_type = BIDI_TYPE_RLI
        THEN PushCase(s, OddLevel(s.current_level), s.override_status, 1)
    ELSE IF char_type = BIDI_TYPE_FSI
        THEN PushCase(s, EvenLevel(s.current_level), s.override_status, 1)
    ELSE IF char_type = BIDI_TYPE_PDI
        THEN PdiCase(s)
    ELSE DefaultCase(s, char_type)

\* The switch of process_runs.  s holds the locals on entry, with
\* new_level = current_level and create_new_run = 0.
SwitchCharType(s, char_type) ==
    IF char_type = BIDI_TYPE_LRE
        THEN PushCase(s, EvenLevel(s.current_level), s.override_status, s.isolate_status)
    ELSE IF char_type = BIDI_TYPE_RLE
        THEN PushCase(s, OddLevel(s.current_level), s.override_status, s.isolate_status)
    ELSE IF char_type = BIDI_TYPE_PDF
        THEN PdfCase(s)
    ELSE IF char_type = BIDI_TYPE_LRO
        THEN PushCase(s, EvenLevel(s.current_level), 0, s.isolate_status)
    ELSE IF char_type = BIDI_TYPE_RLO
        THEN PushCase(s, OddLevel(s.current_level), 1, s.isolate_status)
    ELSE IF char_type = BIDI_TYPE_LRI
        THEN PushCase(s, EvenLevel(s.current_level), s.override_status, 1)
    ELSE IF char_type = BIDI_TYPE_RLI
        THEN PushCase(s, OddLevel(s.current_level), s.override_status, 1)
    ELSE IF char_type = BIDI_TYPE_FSI
        THEN PushCase(s, OddLevel(s.current_level), s.override_status, 1)
    ELSE IF char_type = BIDI_TYPE_PDI
        THEN PdiCase(s)
    ELSE DefaultCase(s, char_type)

\* Mutant of create_bidi_run: the node is one byte longer than asked.
create_bidi_run_ExtraByte(start, len, lvl, id) ==
    [start |-> start, length |-> len + 1, level |-> lvl, id |-> id]

\* The node create_bidi_run returns when malloc succeeds; id names the node.
create_bidi_run(start, len, lvl, id) ==
    [start |-> start, length |-> len, level |-> lvl, id |-> id]

\* The list after "if (!runs) runs = run; else last_run->next = run;".
AppendRun(list, run) == Append(list, run)

\* Mutant of FreeList: the loop starts at runs->next, the head is not freed.
FreeList_SkipsHead(list) == [k \in 1..(Len(list) - 1) |-> list[k + 1].id]

\* The ids handed to free() by a "while (runs) { next = runs->next;
\* free(runs); runs = next; }" loop over list, in order.
FreeList(list) == [k \in 1..Len(list) |-> list[k].id]

SeqToSet(q) == {q[k] : k \in 1..Len(q)}

\* utf8_buf after memcpy(utf8_buf, text + pos, n): the first n slots hold
\* text bytes, the others hold u (what the slot held before).
CopyToBuf(pos, n, u) == [k \in 0..3 |-> IF k < n THEN Mem(pos + k) ELSE u[k]]

NoStale == [k \in 0..3 |-> 0]

(* ------------------------------------------------------------------ *)
(* Calls explored                                                     *)
(* ------------------------------------------------------------------ *)

\* Code points of the well-formed texts: two Latin letters, an Arabic letter,
\* a Hebrew letter, a digit, LRM, RLM, U+10000 and the nine formatting
\* characters LRE RLE PDF LRO RLO LRI RLI FSI PDI.
FormatChars == {8234, 8235, 8236, 8237, 8238, 8294, 8295, 8296, 8297}
PushChars == {8234, 8235, 8237, 8238, 8294, 8295, 8296}
CharSet == {97, 98, 1575, 1488, 49, 8206, 8207, 65536} \cup FormatChars

\* Code points of the longer well-formed texts: a Latin letter, an Arabic
\* letter, RLO, RLI, PDF and PDI.
CoreSet == {97, 1575, 8238, 8295, 8236, 8297}

\* Code points of the texts of letters only: a Latin letter, an Arabic
\* letter and a Hebrew letter.
LetterSet == {97, 1575, 1488}

\* Bytes of the raw texts: 'a', two continuation bytes and the lead bytes
\* of a 2-, 3- and 4-byte sequence.
ByteSet == {97, 128, 167, 216, 226, 240}

\* Values a byte outside the buffer may have.
JunkBytes == {0, 128}

\* Contents utf8_buf may hold before the memcpy of an iteration.
StaleBufs == {NoStale, [k \in 0..3 |-> IF k = 1 THEN 128 ELSE IF k = 2 THEN 170 ELSE 0]}

RECURSIVE EncodeSeq(_)
EncodeSeq(cps) ==
    IF cps = << >> THEN << >>
    ELSE codepoint_to_utf8(Head(cps)) \o EncodeSeq(Tail(cps))

\* n copies of the byte sequence b.
Repeat(b, n) == [k \in 1..(n * Len(b)) |-> b[((k - 1) % Len(b)) + 1]]

CharSeqs == UNION {[1..n -> CharSet] : n \in 1..MaxChars}
CoreSeqs == UNION {[1..n -> CoreSet] : n \in 1..MaxCore}
LetterSeqs == UNION {[1..n -> LetterSet] : n \in 1..MaxLetters}
RawTexts == UNION {[1..n -> ByteSet] : n \in 1..MaxBytes}
DeepText(c) == Repeat(codepoint_to_utf8(c), DeepNest) \o << 97 >>
PlainText == Repeat(<< 97 >>, LongPlain)

\* No library function is called directly during a call of the engine.
NoDirectCall ==
    /\ fn = "none"
    /\ arg_codepoint = -1
    /\ arg_utf8_char = [k \in 0..3 |-> 0]
    /\ utf8_len = -1
    /\ ret = -1
    /\ out_codepoint = -1

\* The state at the call process_bidirectional_text(text, length, is_rtl, output).
InitCall(t, j, tnull, onull, n, d) ==
    /\ text = t
    /\ junk = j
    /\ text_null = tnull
    /\ output_null = onull
    /\ length = n
    /\ is_rtl = d
    /\ pc = "call"
    /\ i = 0 /\ run_start = 0 /\ current_level = 0
    /\ stack = [k \in {0} |-> 0] /\ stack_top = 0
    /\ override_status = -1 /\ isolate_status = 0
    /\ runs = << >>
    /\ nalloc = 0 /\ live = {} /\ freed = << >> /\ alloc_failed = FALSE
    /\ output = << >> /\ out_pos = 0
    /\ level = 0 /\ rnext = 1
    /\ result = -1
    /\ oob_read = FALSE /\ uninit_read = FALSE /\ buf_overrun = FALSE
    /\ uaf = FALSE
    /\ emitted = << >>
    /\ NoDirectCall

\* Valid calls pass a buffer and its length; the well-formed texts are
\* followed by a NUL, the raw texts by any junk byte.  Invalid calls pass a
\* NULL text, a NULL output or a length <= 0.
Init ==
    \/ \E cs \in CharSeqs \cup CoreSeqs \cup LetterSeqs, d \in {0, 1} :
         InitCall(EncodeSeq(cs), 0, FALSE, FALSE, Len(EncodeSeq(cs)), d)
    \/ \E c \in PushChars, d \in {0, 1} :
         InitCall(DeepText(c), 0, FALSE, FALSE, Len(DeepText(c)), d)
    \/ \E d \in {0, 1} :
         InitCall(PlainText, 0, FALSE, FALSE, Len(PlainText), d)
    \/ \E t \in RawTexts, j \in JunkBytes, d \in {0, 1} :
         InitCall(t, j, FALSE, FALSE, Len(t), d)
    \/ \E o \in BOOLEAN, n \in {0, 2}, d \in {0, 1} :
         InitCall(<< >>, 0, TRUE, o, n, d)
    \/ \E n \in {0, 2}, d \in {0, 1} :
         InitCall(<< 97, 98 >>, 0, FALSE, TRUE, n, d)
    \/ \E t \in {<< >>, << 97, 98 >>}, n \in {-1, 0}, d \in {0, 1} :
         InitCall(t, 0, FALSE, FALSE, n, d)

(* ------------------------------------------------------------------ *)
(* Actions of process_bidirectional_text and process_runs             *)
(* ------------------------------------------------------------------ *)

BaseLevel(rtl) == IF rtl # 0 THEN 1 ELSE 0

\* Mutant of InvalidArgs: the output pointer is not checked.
InvalidArgs_NoOutputCheck(tnull, onull, n) == tnull \/ n <= 0

\* "if (!text || !output || length <= 0)"
InvalidArgs(tnull, onull, n) == tnull \/ onull \/ n <= 0

\* process_bidirectional_text, entry: the argument check, then the
\* initialisation of the locals of process_runs.
Call ==
    /\ pc = "call"
    /\ IF InvalidArgs(text_null, output_null, length)
       THEN /\ result' = 0
            /\ pc' = "done"
            /\ UNCHANGED << current_level, stack >>
       ELSE /\ pc' = "segment"
            /\ current_level' = BaseLevel(is_rtl)
            /\ stack' = [k \in {0} |-> BaseLevel(is_rtl)]
            /\ UNCHANGED result
    /\ UNCHANGED codec_vars
    /\ UNCHANGED emitted
    /\ UNCHANGED << text, text_null, output_null, length, is_rtl, junk, i, run_start,
                    stack_top, override_status, isolate_status, runs, nalloc, live,
                    freed, alloc_failed, output, out_pos, level, rnext, oob_read,
                    uninit_read, buf_overrun, uaf >>

\* Mutant of CleanupOnFailure: the list built so far is returned as it is.
CleanupOnFailure_ReturnsPartial ==
    /\ alloc_failed' = TRUE
    /\ pc' = "returned"
    /\ UNCHANGED << runs, freed, live >>

\* The "cleanup:" path of process_runs: every node of the list is freed and
\* NULL is returned.
CleanupOnFailure ==
    /\ freed' = freed \o FreeList(runs)
    /\ live' = live \ SeqToSet(FreeList(runs))
    /\ runs' = << >>
    /\ alloc_failed' = TRUE
    /\ pc' = "returned"

\* One iteration of the while loop of process_runs.
SegStep ==
    /\ pc = "segment"
    /\ i < length
    /\ LET char_len == get_utf8_char_length(Mem(i))
           utf8_buf == CopyToBuf(i, char_len, NoStale)
           dec == utf8_to_codepoint(utf8_buf)
           s0 == [stack |-> stack, stack_top |-> stack_top,
                  current_level |-> current_level,
                  override_status |-> override_status,
                  isolate_status |-> isolate_status,
                  new_level |-> current_level, create_new_run |-> 0]
       IN
       \E s \in {SwitchCharType(s0, get_char_type(dec.codepoint))} :
       LET needs_node == s.create_new_run # 0 /\ i > run_start IN
       IF char_len = 0 \/ dec.ok = 0
       THEN /\ pc' = "final"
            /\ oob_read' = (oob_read \/ ~InBuffer(i + char_len - 1))
            /\ UNCHANGED << i, run_start, current_level, stack, stack_top,
                            override_status, isolate_status, runs, nalloc, live,
                            freed, alloc_failed >>
       ELSE \E malloc_ok \in (IF needs_node THEN BOOLEAN ELSE {TRUE}) :
            /\ oob_read' = (oob_read \/ ~InBuffer(i + char_len - 1))
            /\ stack' = s.stack
            /\ stack_top' = s.stack_top
            /\ override_status' = s.override_status
            /\ isolate_status' = s.isolate_status
            /\ IF ~malloc_ok
               THEN /\ CleanupOnFailure
                    /\ current_level' = s.current_level
                    /\ UNCHANGED << i, run_start, nalloc >>
               ELSE /\ IF needs_node
                       THEN /\ runs' = AppendRun(runs,
                                   create_bidi_run(run_start, i - run_start,
                                                   s.current_level, nalloc + 1))
                            /\ nalloc' = nalloc + 1
                            /\ live' = live \cup {nalloc + 1}
                       ELSE UNCHANGED << runs, nalloc, live >>
                    /\ run_start' = IF s.create_new_run # 0 THEN i ELSE run_start
                    /\ current_level' = IF s.create_new_run # 0 THEN s.new_level
                                        ELSE s.current_level
                    /\ i' = i + char_len
                    /\ pc' = "segment"
                    /\ UNCHANGED << freed, alloc_failed >>
    /\ UNCHANGED codec_vars
    /\ UNCHANGED emitted
    /\ UNCHANGED << text, text_null, output_null, length, is_rtl, junk, output,
                    out_pos, level, rnext, result, uninit_read, buf_overrun, uaf >>

\* After the loop: the final run, then the return of the list.
SegFinal ==
    /\ \/ pc = "final"
       \/ pc = "segment" /\ ~(i < length)
    /\ \E malloc_ok \in (IF i > run_start THEN BOOLEAN ELSE {TRUE}) :
        IF ~malloc_ok
        THEN /\ CleanupOnFailure
             /\ UNCHANGED nalloc
        ELSE /\ IF i > run_start
                THEN /\ runs' = AppendRun(runs,
                            create_bidi_run(run_start, i - run_start,
                                            current_level, nalloc + 1))
                     /\ nalloc' = nalloc + 1
                     /\ live' = live \cup {nalloc + 1}
                ELSE UNCHANGED << runs, nalloc, live >>
             /\ pc' = "returned"
             /\ UNCHANGED << freed, alloc_failed >>
    /\ UNCHANGED codec_vars
    /\ UNCHANGED emitted
    /\ UNCHANGED << text, text_null, output_null, length, is_rtl, junk, i, run_start,
                    current_level, stack, stack_top, override_status, isolate_status,
                    output, out_pos, level, rnext, result, oob_read, uninit_read,
                    buf_overrun, uaf >>

(* ------------------------------------------------------------------ *)
(* Run reordering (reorder_runs)                                      *)
(* ------------------------------------------------------------------ *)

RECURSIVE MaxLevelFrom(_, _, _)
\* The first loop of reorder_runs: the maximum level, starting from m.
MaxLevelFrom(list, k, m) ==
    IF k > Len(list) THEN m
    ELSE MaxLevelFrom(list, k + 1, IF list[k].level > m THEN list[k].level ELSE m)

MaxLevel(list) == MaxLevelFrom(list, 1, 0)

\* Mutant of NextMatch: the level is not decremented; at the end of the
\* list the inner loop starts again from the head at the same level.
NextMatch_LevelStuck(list, lvl, k) ==
    LET ahead == {j \in k..Len(list) : list[j].level = lvl}
        all == {j \in 1..Len(list) : list[j].level = lvl}
        least(S) == CHOOSE j \in S : \A m \in S : j <= m
    IN IF lvl < 0 \/ all = {} THEN [level |-> -1, k |-> 1]
       ELSE IF ahead # {} THEN [level |-> lvl, k |-> least(ahead)]
       ELSE [level |-> lvl, k |-> least(all)]

\* Mutant of NextMatch: the level test is dropped, the runs are taken in
\* list order.
NextMatch_ListOrder(list, lvl, k) ==
    IF k > Len(list) THEN [level |-> -1, k |-> 1]
    ELSE [level |-> lvl, k |-> k]

RECURSIVE NextMatch(_, _, _)
\* The nested for loops of reorder_runs from (lvl, k) on: the next pair with
\* list[k].level = lvl, or lvl = -1 when the loops end.
NextMatch(list, lvl, k) ==
    IF lvl < 0 THEN [level |-> -1, k |-> 1]
    ELSE IF k > Len(list) THEN NextMatch(list, lvl - 1, 1)
    ELSE IF list[k].level = lvl THEN [level |-> lvl, k |-> k]
    ELSE NextMatch(list, lvl, k + 1)

\* memcpy(output + at, text + pos, n) on the written part of the output.
WriteOut(out, at, pos, n) ==
    [k \in 1..Max2(Len(out), at + n) |->
        IF k > at /\ k <= at + n THEN Mem(pos + (k - at) - 1) ELSE out[k]]

\* Mutant of CopyChar: out_pos advances by one byte whatever n is.
CopyChar_AdvanceOne(out, at, pos, n) ==
    [out |-> WriteOut(out, at, pos, n), out_pos |-> at + 1]

\* "memcpy(output + out_pos, text + pos, n); out_pos += n;"
CopyChar(out, at, pos, n) == [out |-> WriteOut(out, at, pos, n), out_pos |-> at + n]

RECURSIVE ScanBack(_, _, _)
\* "while (prev_char_len <= 4 && pos - prev_char_len >= run->start &&
\*         (text[pos - prev_char_len] & 0xC0) == 0x80) prev_char_len++;"
ScanBack(pos, start, prev_char_len) ==
    IF prev_char_len <= 4 /\ pos - prev_char_len >= start
       /\ Mem(pos - prev_char_len) \div 64 = 2
    THEN ScanBack(pos, start, prev_char_len + 1)
    ELSE prev_char_len

\* Mutant of PrevCharLen: the walk steps back one byte at a time.
PrevCharLen_OneByte(pos, start) == 1

PrevCharLen(pos, start) == ScanBack(pos, start, 1)

\* The accumulator of a walk over one run: the output, out_pos, the lowest
\* and highest text offsets read, and the flags.
WalkStart(out, at) ==
    [out |-> out, out_pos |-> at, lo |-> 0, hi |-> 0,
     overrun |-> FALSE, uninit |-> FALSE]

RECURSIVE RtlWalk(_, _, _, _)
\* The backward walk of an odd-level run from pos down to run.start.
RtlWalk(run, pos, acc, stale) ==
    IF ~(pos > run.start) THEN acc
    ELSE LET prev_char_len == PrevCharLen(pos, run.start)
             p == pos - prev_char_len
             utf8_buf == CopyToBuf(p, prev_char_len, stale)
             dec == utf8_to_codepoint(utf8_buf)
             char_type == get_char_type(dec.codepoint)
             copied == dec.ok # 0 /\ ~IsFormattingType(char_type)
             cc == IF copied THEN CopyChar(acc.out, acc.out_pos, p, prev_char_len)
                   ELSE [out |-> acc.out, out_pos |-> acc.out_pos]
             acc2 == [out |-> cc.out,
                      out_pos |-> cc.out_pos,
                      lo |-> Min2(acc.lo, p),
                      hi |-> Max2(acc.hi, pos - 1),
                      overrun |-> acc.overrun \/ prev_char_len > 4,
                      uninit |-> acc.uninit
                                 \/ get_utf8_char_length(utf8_buf[0]) > prev_char_len]
         \* the next iteration, on the values just computed
         IN CHOOSE r \in {RtlWalk(run, q, a, stale) : q \in {p}, a \in {acc2}} : TRUE

RECURSIVE LtrWalk(_, _, _)
\* The forward walk of an even-level run from pos up to run.start + run.length.
LtrWalk(run, pos, acc) ==
    IF ~(pos < run.start + run.length) THEN acc
    ELSE LET char_len == get_utf8_char_length(Mem(pos))
             utf8_buf == CopyToBuf(pos, char_len, NoStale)
             dec == utf8_to_codepoint(utf8_buf)
             codepoint == IF dec.ok # 0 THEN dec.codepoint ELSE 0
             char_type == get_char_type(codepoint)
             copied == ~IsFormattingType(char_type)
             cc == IF copied THEN CopyChar(acc.out, acc.out_pos, pos, char_len)
                   ELSE [out |-> acc.out, out_pos |-> acc.out_pos]
             acc2 == [out |-> cc.out,
                      out_pos |-> cc.out_pos,
                      lo |-> Min2(acc.lo, pos),
                      hi |-> Max2(acc.hi, pos + char_len - 1),
                      overrun |-> acc.overrun,
                      uninit |-> acc.uninit]
         \* the next iteration, on the values just computed
         IN CHOOSE r \in {LtrWalk(run, q, a) : q \in {pos + char_len}, a \in {acc2}} : TRUE

\* Mutant of WalkRun: every run is walked forward, whatever its level.
WalkRun_AlwaysForward(run, out, at, stale) ==
    LtrWalk(run, run.start, WalkStart(out, at))

\* "if (level % 2)": the walk of one run at its level.
WalkRun(run, out, at, stale) ==
    IF run.level % 2 # 0
    THEN RtlWalk(run, run.start + run.length, WalkStart(out, at), stale)
    ELSE LtrWalk(run, run.start, WalkStart(out, at))

\* process_bidirectional_text after process_runs returned: NULL ends the
\* call with 0; otherwise reorder_runs starts (max_level, out_pos = 0).
DriverCheck ==
    /\ pc = "returned"
    /\ IF runs = << >>
       THEN /\ result' = 0
            /\ pc' = "done"
            /\ UNCHANGED << out_pos, level, rnext, uaf >>
       ELSE /\ out_pos' = 0
            /\ level' = MaxLevel(runs)
            /\ rnext' = 1
            /\ uaf' = (uaf \/ \E k \in 1..Len(runs) : runs[k].id \notin live)
            /\ pc' = "reorder"
            /\ UNCHANGED result
    /\ UNCHANGED codec_vars
    /\ UNCHANGED emitted
    /\ UNCHANGED << text, text_null, output_null, length, is_rtl, junk, i, run_start,
                    current_level, stack, stack_top, override_status, isolate_status,
                    runs, nalloc, live, freed, alloc_failed, output, oob_read,
                    uninit_read, buf_overrun >>

\* reorder_runs: the loops advance to the next run whose level is the
\* current level and copy it; when the loops end, out_pos is returned.
ReorderStep ==
    /\ pc = "reorder"
    /\ \E m \in {NextMatch(runs, level, rnext)} :
       IF m.level < 0
       THEN /\ pc' = "free"
            /\ result' = out_pos
            /\ level' = -1
            /\ UNCHANGED << rnext, output, out_pos, oob_read, uninit_read,
                            buf_overrun, emitted >>
       ELSE \E stale \in StaleBufs :
            \E w \in {WalkRun(runs[m.k], output, out_pos, stale)} :
            /\ output' = w.out
            /\ out_pos' = w.out_pos
            /\ level' = m.level
            /\ rnext' = m.k + 1
            /\ oob_read' = (oob_read \/ ~InBuffer(w.lo) \/ ~InBuffer(w.hi))
            /\ uninit_read' = (uninit_read \/ w.uninit)
            /\ buf_overrun' = (buf_overrun \/ w.overrun)
            /\ emitted' = Append(emitted, [k |-> m.k, from |-> out_pos,
                                            to |-> w.out_pos])
            /\ pc' = "reorder"
            /\ UNCHANGED result
    /\ uaf' = (uaf \/ \E k \in 1..Len(runs) : runs[k].id \notin live)
    /\ UNCHANGED codec_vars
    /\ UNCHANGED << text, text_null, output_null, length, is_rtl, junk, i, run_start,
                    current_level, stack, stack_top, override_status, isolate_status,
                    runs, nalloc, live, freed, alloc_failed >>

\* process_bidirectional_text, "Clean up": the list is freed and the result
\* of reorder_runs is returned.
DriverFree ==
    /\ pc = "free"
    /\ freed' = freed \o FreeList(runs)
    /\ live' = live \ SeqToSet(FreeList(runs))
    /\ runs' = << >>
    /\ pc' = "done"
    /\ UNCHANGED codec_vars
    /\ UNCHANGED emitted
    /\ UNCHANGED << text, text_null, output_null, length, is_rtl, junk, i, run_start,
                    current_level, stack, stack_top, override_status, isolate_status,
                    nalloc, alloc_failed, output, out_pos, level, rnext, result,
                    oob_read, uninit_read, buf_overrun, uaf >>

Next == Call \/ SegStep \/ SegFinal \/ DriverCheck \/ ReorderStep \/ DriverFree

Spec == Init /\ [][Next]_vars

\* Texts with formatting characters for the termination check: an
\* embedding around letters, nested isolates, an override popped before a
\* digit, and pops on the base entry.
FormattedSamples ==
    {<< 8235, 1488, 1489, 8236, 97 >>, << 8295, 8295, 8297, 8297 >>,
     << 97, 8238, 8236, 49 >>, << 8236, 8297, 97, 8234 >>,
     << 8237, 1575, 32, 98 >>, << 8294, 97, 8296, 1575, 8297 >>}

\* The calls of the termination check: the letter texts, the raw byte
\* texts of at most MaxChars bytes, the formatted samples and the invalid
\* calls.
LiveInit ==
    \/ \E cs \in LetterSeqs \cup FormattedSamples, d \in {0, 1} :
         InitCall(EncodeSeq(cs), 0, FALSE, FALSE, Len(EncodeSeq(cs)), d)
    \/ \E t \in {r \in RawTexts : Len(r) <= MaxChars}, j \in JunkBytes,
          d \in {0, 1} :
         InitCall(t, j, FALSE, FALSE, Len(t), d)
    \/ \E o \in BOOLEAN, n \in {0, 2}, d \in {0, 1} :
         InitCall(<< >>, 0, TRUE, o, n, d)
    \/ \E n \in {0, 2}, d \in {0, 1} :
         InitCall(<< 97, 98 >>, 0, FALSE, TRUE, n, d)

\* The call is one sequential thread: a statement that can execute does.
LiveSpec == LiveInit /\ [][Next]_vars /\ WF_vars(Next)

(* ------------------------------------------------------------------ *)
(* Direct calls of get_char_type and of the UTF-8 functions           *)
(* ------------------------------------------------------------------ *)

\* Code points passed to get_char_type and codepoint_to_utf8: every code
\* point up to MaxCodePoint (all ranges of get_char_type and the length
\* boundaries 0x7F/0x80 and 0x7FF/0x800 lie below it), the boundaries
\* 0xFFFF/0x10000 and 0x10FFFF, a CJK code point, and 0x110000, which
\* codepoint_to_utf8 rejects.
CodePoints == (0..MaxCodePoint) \cup {20013, 65535, 65536, 1114111, 1114112}

\* Buffers passed to utf8_to_codepoint and get_utf8_char_length: every
\* 4-byte buffer over ByteSet, and every first byte 0..255 followed by
\* continuation bytes 0x80.
Utf8Bufs ==
    [0..3 -> ByteSet]
    \cup {[k \in 0..3 |-> IF k = 0 THEN b ELSE 128] : b \in 0..255}

\* No call of process_bidirectional_text is in progress.
EngineIdle ==
    /\ text = << >> /\ junk = 0
    /\ text_null = FALSE /\ output_null = FALSE
    /\ length = 0 /\ is_rtl = 0
    /\ pc = "idle"
    /\ i = 0 /\ run_start = 0 /\ current_level = 0
    /\ stack = [k \in {0} |-> 0] /\ stack_top = 0
    /\ override_status = -1 /\ isolate_status = 0
    /\ runs = << >>
    /\ nalloc = 0 /\ live = {} /\ freed = << >> /\ alloc_failed = FALSE
    /\ output = << >> /\ out_pos = 0
    /\ level = 0 /\ rnext = 1
    /\ result = -1
    /\ oob_read = FALSE /\ uninit_read = FALSE /\ buf_overrun = FALSE
    /\ uaf = FALSE
    /\ emitted = << >>

\* A caller holds either a code point (and a zeroed buffer, as the test
\* char utf8_buf[4] = {0}) or a buffer of bytes.
CodecInit ==
    /\ EngineIdle
    /\ fn = "ready"
    /\ utf8_len = -1 /\ ret = -1 /\ out_codepoint = -1
    /\ \/ arg_codepoint \in CodePoints /\ arg_utf8_char = [k \in 0..3 |-> 0]
       \/ arg_codepoint = -1 /\ arg_utf8_char \in Utf8Bufs

\* get_char_type(codepoint)
CallGetCharType ==
    /\ fn = "ready" /\ arg_codepoint >= 0
    /\ ret' = get_char_type(arg_codepoint)
    /\ fn' = "get_char_type"
    /\ UNCHANGED << arg_codepoint, arg_utf8_char, utf8_len, out_codepoint >>
    /\ UNCHANGED engine_vars

\* codepoint_to_utf8(codepoint, utf8_char): the bytes are written to the
\* front of the buffer, the rest of it is left as it was.
CallCodepointToUtf8 ==
    /\ fn = "ready" /\ arg_codepoint >= 0
    /\ LET written == codepoint_to_utf8(arg_codepoint) IN
       /\ arg_utf8_char' = [k \in 0..3 |-> IF k < Len(written)
                                            THEN written[k + 1]
                                            ELSE arg_utf8_char[k]]
       /\ utf8_len' = Len(written)
       /\ ret' = Len(written)
    /\ fn' = "codepoint_to_utf8"
    /\ UNCHANGED << arg_codepoint, out_codepoint >>
    /\ UNCHANGED engine_vars

\* TRUE when the buffer holds bytes to read: the caller's own, or the ones
\* codepoint_to_utf8 has just written.
BufferFilled ==
    \/ fn = "ready" /\ arg_codepoint = -1
    \/ fn = "codepoint_to_utf8"

\* utf8_to_codepoint(utf8_char, &codepoint); *codepoint is stored only on
\* the success paths.
CallUtf8ToCodepoint ==
    /\ BufferFilled
    /\ LET decoded == utf8_to_codepoint(arg_utf8_char) IN
       /\ ret' = decoded.ok
       /\ out_codepoint' = IF decoded.ok = 1 THEN decoded.codepoint
                                             ELSE out_codepoint
    /\ fn' = "utf8_to_codepoint"
    /\ UNCHANGED << arg_codepoint, arg_utf8_char, utf8_len >>
    /\ UNCHANGED engine_vars

\* get_utf8_char_length(utf8_char[0])
CallGetUtf8CharLength ==
    /\ BufferFilled
    /\ ret' = get_utf8_char_length(arg_utf8_char[0])
    /\ fn' = "get_utf8_char_length"
    /\ UNCHANGED << arg_codepoint, arg_utf8_char, utf8_len, out_codepoint >>
    /\ UNCHANGED engine_vars

CodecNext ==
    \/ CallGetCharType
    \/ CallCodepointToUtf8
    \/ CallUtf8ToCodepoint
    \/ CallGetUtf8CharLength

CodecSpec == CodecInit /\ [][CodecNext]_vars

(* ------------------------------------------------------------------ *)
(* Vocabulary of the properties                                       *)
(* ------------------------------------------------------------------ *)

\* The call passed the argument check and no malloc failed.
ValidCall == ~text_null /\ ~output_null /\ length > 0
Completed == pc = "done" /\ ValidCall /\ ~alloc_failed

RECURSIVE WellFormedFrom(_, _)
\* t, from index k on, is a sequence of complete UTF-8 sequences: each lead
\* byte is followed by the continuation bytes it declares.
WellFormedFrom(t, k) ==
    IF k > Len(t) THEN TRUE
    ELSE LET n == get_utf8_char_length(t[k]) IN
         /\ t[k] < 128 \/ (t[k] >= 192 /\ t[k] < 248)
         /\ k + n - 1 <= Len(t)
         /\ \A j \in 1..(n - 1) : t[k + j] \div 64 = 2
         /\ WellFormedFrom(t, k + n)

WellFormed(t) == WellFormedFrom(t, 1)

RECURSIVE DecodeFrom(_, _)
\* The code points of a well-formed byte sequence, from index k on.
DecodeFrom(t, k) ==
    IF k > Len(t) THEN << >>
    ELSE LET n == get_utf8_char_length(t[k])
             buf == [j \in 0..3 |-> IF j < n THEN t[k + j] ELSE 0]
         IN << utf8_to_codepoint(buf).codepoint >> \o DecodeFrom(t, k + n)

Decode(t) == DecodeFrom(t, 1)

Reverse(q) == [k \in 1..Len(q) |-> q[Len(q) + 1 - k]]

IsRtlLetter(c) == get_char_type(c) \in {BIDI_TYPE_R, BIDI_TYPE_AL}
IsFormatChar(c) == c \in FormatChars
Count(q, c) == Cardinality({k \in 1..Len(q) : q[k] = c})
Filter(q, Keep(_)) == SelectSeq(q, Keep)

\* Total byte length of the formatting characters of a code point sequence.
RECURSIVE FormatBytes(_)
FormatBytes(q) ==
    IF q = << >> THEN 0
    ELSE (IF IsFormatChar(Head(q)) THEN Len(codepoint_to_utf8(Head(q))) ELSE 0)
         + FormatBytes(Tail(q))

(* ------------------------------------------------------------------ *)
(* Properties                                                         *)
(* ------------------------------------------------------------------ *)

AllOfType(q, ty) == \A k \in 1..Len(q) : get_char_type(q[k]) = ty
NoFormatChar(q) == \A k \in 1..Len(q) : ~IsFormatChar(q[k])
AllOfFormat(q) == \A k \in 1..Len(q) : IsFormatChar(q[k])

\* C1: for a non-empty input of ASCII letters only (every code point of
\* type L) and is_rtl = 0, the output bytes are identical to the input, in
\* the same order, and the return value is the input length.
C1_AsciiLettersUnchanged ==
    (Completed /\ is_rtl = 0 /\ WellFormed(text)
        /\ AllOfType(Decode(text), BIDI_TYPE_L))
    => (output = text /\ result = length)

\* C2: for a well-formed input without formatting characters and is_rtl = 1,
\* the output is well-formed UTF-8 whose R/AL letters are the R/AL letters of
\* the input in reverse order; an input of two-byte Arabic letters only gives
\* the full code-point reversal and the return value is the input length.
C2_RtlLettersReversed ==
    (Completed /\ is_rtl = 1 /\ WellFormed(text) /\ NoFormatChar(Decode(text)))
    => /\ WellFormed(output)
       /\ Filter(Decode(output), IsRtlLetter)
            = Reverse(Filter(Decode(text), IsRtlLetter))
       /\ AllOfType(Decode(text), BIDI_TYPE_AL)
            => (Decode(output) = Reverse(Decode(text)) /\ result = length)

\* C2 witness: "aa" followed by an Arabic and a Hebrew letter, is_rtl = 1,
\* came out with the Hebrew letter before the Arabic one.
C2_Witness ==
    /\ Completed /\ is_rtl = 1
    /\ text = EncodeSeq(<< 97, 97, 1575, 1488 >>)
    /\ Filter(Decode(output), IsRtlLetter) = << 1488, 1575 >>

\* C3: for a well-formed input and either base direction, the output holds
\* none of the nine formatting code points and holds every other code point
\* of the input (LRM and RLM included) exactly as often as the input does.
C3_FormattingStripped ==
    (Completed /\ WellFormed(text))
    => /\ WellFormed(output)
       /\ \A c \in SeqToSet(Decode(text)) \cup SeqToSet(Decode(output)) :
            Count(Decode(output), c)
              = IF IsFormatChar(c) THEN 0 ELSE Count(Decode(text), c)

\* C3 witness: RLO 'a' PDF and an Arabic letter were processed; only the two
\* letters are in the output.
C3_Witness ==
    /\ Completed
    /\ text = EncodeSeq(<< 8238, 97, 8236, 1575 >>)
    /\ Len(output) = 3

\* C4: for a well-formed input of length n > 0 and no allocation failure, the
\* return value is the number of bytes written, which is n minus the byte
\* length of the formatting characters of the input; it is at most n, and
\* positive when the input has a non-formatting code point.
C4_ReturnsBytesWritten ==
    (Completed /\ WellFormed(text))
    => /\ result = Len(output)
       /\ result = length - FormatBytes(Decode(text))
       /\ result <= length
       /\ (~AllOfFormat(Decode(text))) => result > 0

\* C4 witness: a call that dropped some formatting bytes and kept others.
C4_Witness ==
    /\ Completed /\ WellFormed(text)
    /\ result > 0 /\ result < length

\* C5: whatever the number and order of LRE/RLE/LRO/RLO/LRI/RLI/FSI/PDF/PDI,
\* stack_top stays in 0..MAX_DEPTH-1, every slot written lies in the
\* MAX_DEPTH-slot array, stack[0] is the base level during segmentation, and
\* DeepNest consecutive LRE followed by a letter give a positive result.
C5_StackWithinBounds ==
    /\ stack_top \in 0..(MAX_DEPTH - 1)
    /\ DOMAIN stack \subseteq 0..(MAX_DEPTH - 1)
    /\ stack_top \in DOMAIN stack
    /\ pc \in {"segment", "final", "returned"} => stack[0] = BaseLevel(is_rtl)
    /\ (Completed /\ text = DeepText(8234)) => result > 0

\* C5 witness: the call on DeepNest LRE and a letter returned a positive
\* count with the stack filled to its last slot.
C5_Witness ==
    /\ Completed /\ text = DeepText(8234)
    /\ stack_top = MAX_DEPTH - 1
    /\ result > 0

\* C6: every run has a level in 0..MAX_DEPTH and current_level stays in that
\* range during the scan, for every input length and both base directions.
C6_LevelsWithinMaxDepth ==
    /\ \A k \in 1..Len(runs) : runs[k].level \in 0..MAX_DEPTH
    /\ pc \in {"segment", "final"} => current_level \in 0..MAX_DEPTH

RECURSIVE FirstMalformedFrom(_, _)
\* Offset of the first sequence of t, from index k on, whose lead byte
\* declares continuation bytes that are missing or not 10xxxxxx; -1 if none.
FirstMalformedFrom(t, k) ==
    IF k > Len(t) THEN -1
    ELSE LET n == get_utf8_char_length(t[k]) IN
         IF k + n - 1 > Len(t) \/ \E j \in 1..(n - 1) : t[k + j] \div 64 # 2
         THEN k - 1
         ELSE FirstMalformedFrom(t, k + n)

FirstMalformed(t) == FirstMalformedFrom(t, 1)

\* End offset of the last run of a list (0 for the empty list).
RunsEnd(list) ==
    IF list = << >> THEN 0 ELSE list[Len(list)].start + list[Len(list)].length

\* C7: when the input has a malformed sequence at offset k, segmentation
\* stops there: the scan ends with i = k, the run list covers exactly [0, k),
\* and no more than those k bytes reach the output.
C7_StopsAtMalformed ==
    (ValidCall /\ ~alloc_failed /\ pc \in {"returned", "reorder", "free", "done"}
        /\ FirstMalformed(text) >= 0)
    => /\ i = FirstMalformed(text)
       /\ pc # "done" => RunsEnd(runs) = FirstMalformed(text)
       /\ pc = "done" => result <= FirstMalformed(text)

\* C8: when the allocation of a run node fails, every node allocated so far
\* is freed, process_runs returns NULL, and process_bidirectional_text
\* returns 0 with nothing written to the output.
C8_AllocFailureReleasesAll ==
    alloc_failed
    => /\ pc \in {"returned", "done"}
       /\ runs = << >>
       /\ live = {}
       /\ Len(freed) = nalloc /\ SeqToSet(freed) = 1..nalloc
       /\ output = << >>
       /\ pc = "done" => result = 0

\* C8 witness: the allocation failed after two nodes had been allocated and
\* the call returned.
C8_Witness == alloc_failed /\ nalloc >= 2 /\ pc = "done" /\ result = 0

\* C9: on every return path no run node is live, every allocated node was
\* freed exactly once, and no freed node was read.
C9_NodesFreedExactlyOnce ==
    /\ Cardinality(SeqToSet(freed)) = Len(freed)
    /\ SeqToSet(freed) \cap live = {}
    /\ ~uaf
    /\ pc = "done" => (live = {} /\ SeqToSet(freed) = 1..nalloc)

\* C9 witness: a successful call that allocated three nodes returned.
C9_Witness == Completed /\ nalloc >= 3 /\ result > 0

\* C10: the call returns 0 and writes nothing when text is NULL, output is
\* NULL or length <= 0.
C10_InvalidArgsReturnZero ==
    (text_null \/ output_null \/ length <= 0)
    => /\ pc \in {"call", "done"}
       /\ output = << >>
       /\ nalloc = 0
       /\ pc = "done" => result = 0

\* C10 witness: a call with a text, a positive length and a NULL output
\* returned 0.
C10_Witness ==
    pc = "done" /\ output_null /\ ~text_null /\ length > 0 /\ result = 0

\* TRUE when the text is DeepNest copies of one push-type character followed
\* by a letter: consecutive pushes from the base entry with no pop between.
IsDeepText ==
    /\ Len(text) = 3 * DeepNest + 1
    /\ \E c \in PushChars : text = DeepText(c)

\* C11: starting from the base entry with no pops in between, each of the
\* first MAX_DEPTH (125) consecutive push-type characters adds a stack entry
\* and marks a boundary; only the 126th and later are skipped.  So after the
\* scan of k push characters the stack holds min(k, 125) entries above the
\* base and the current run starts at the last push that took effect.
C11_First125PushesTakeEffect ==
    (pc = "segment" /\ ValidCall /\ IsDeepText /\ i <= 3 * DeepNest)
    => /\ stack_top = Min2(i \div 3, MAX_DEPTH)
       /\ i > 0 => run_start = 3 * (Min2(i \div 3, MAX_DEPTH) - 1)

\* The Arabic-Indic digits U+0660..U+0669 and the Extended Arabic-Indic
\* digits U+06F0..U+06F9.
ArabicDigits == (1632..1641) \cup (1776..1785)

\* C12: get_char_type returns AN (5) for every Arabic-Indic digit
\* U+0660..U+0669 and every Extended Arabic-Indic digit U+06F0..U+06F9.
C12_ArabicDigitsAreAN ==
    (fn = "get_char_type" /\ arg_codepoint \in ArabicDigits) => ret = 5

\* The eleven exact formatting code points and their published values.
FormatRule ==
    [c \in {8206, 8207, 8234, 8235, 8236, 8237, 8238, 8294, 8295, 8296, 8297} |->
        IF c = 8206 THEN 22 ELSE IF c = 8207 THEN 23
        ELSE IF c = 8234 THEN 13 ELSE IF c = 8235 THEN 14
        ELSE IF c = 8236 THEN 15 ELSE IF c = 8237 THEN 16
        ELSE IF c = 8238 THEN 17 ELSE IF c = 8294 THEN 18
        ELSE IF c = 8295 THEN 19 ELSE IF c = 8296 THEN 20 ELSE 21]

\* The ordered rule list with the published enum values, as a table of
\* code point sets.
FirstMatchingRule(c) ==
    IF c \in (1536..1791) \cup (1872..1919) \cup (2208..2303) THEN 12
    ELSE IF c \in 1424..1535 THEN 1
    ELSE IF c \in 48..57 THEN 2
    ELSE IF c \in DOMAIN FormatRule THEN FormatRule[c]
    ELSE IF c \in {32, 9, 160} THEN 9
    ELSE IF c \in {10, 13, 8233} THEN 7
    ELSE IF c = 31 THEN 8
    ELSE IF c < 128 THEN 0
    ELSE 10

\* C13: get_char_type is total and returns, for every code point, the value
\* of the first matching rule of the ordered list (AL=12, R=1, EN=2, the
\* eleven formatting values, WS=9, B=7, S=8, L=0, ON=10); U+0009 is WS and
\* never S.
C13_FirstMatchingRuleWins ==
    fn = "get_char_type"
    => /\ ret = FirstMatchingRule(arg_codepoint)
       /\ ret \in {0, 1, 2, 7, 8, 9, 10, 12} \cup (13..23)
       /\ arg_codepoint = 9 => (ret = 9 /\ ret # 8)

\* C13 witness: get_char_type was called on TAB and returned WS.
C13_Witness == fn = "get_char_type" /\ arg_codepoint = 9 /\ ret = BIDI_TYPE_WS

\* TRUE when every continuation byte of the sequence that the lead byte of
\* buf declares has the form 10xxxxxx.
ContinuationsMatch(buf) ==
    \A k \in 1..(get_utf8_char_length(buf[0]) - 1) : buf[k] \div 64 = 2

\* C14: utf8_to_codepoint returns 0 whenever a continuation byte of the
\* sequence declared by the lead byte does not match 10xxxxxx, and returns
\* success only for a sequence whose continuation bytes all match.
C14_RejectsBadContinuation ==
    fn = "utf8_to_codepoint"
    => (ret = 1 <=> ContinuationsMatch(arg_utf8_char))

\* The code points of Unicode, 0..0x10FFFF.
IsUnicode(c) == c >= 0 /\ c <= 1114111

\* Number of bytes of the standard UTF-8 form of c.
StandardLength(c) ==
    IF c <= 127 THEN 1 ELSE IF c <= 2047 THEN 2 ELSE IF c <= 65535 THEN 3 ELSE 4

\* TRUE when the first n bytes of buf are the standard UTF-8 form of c: a
\* lead byte of the class of n, continuation bytes 10xxxxxx, and the payload
\* bits of c from the most significant down.
IsStandardUtf8(buf, n, c) ==
    /\ n = StandardLength(c)
    /\ \A k \in 1..(n - 1) : buf[k] \in 128..191
    /\ IF n = 1 THEN buf[0] = c
       ELSE IF n = 2 THEN
            buf[0] \in 192..223
            /\ (buf[0] - 192) * 64 + (buf[1] - 128) = c
       ELSE IF n = 3 THEN
            buf[0] \in 224..239
            /\ (buf[0] - 224) * 4096 + (buf[1] - 128) * 64 + (buf[2] - 128) = c
       ELSE buf[0] \in 240..247
            /\ (buf[0] - 240) * 262144 + (buf[1] - 128) * 4096
               + (buf[2] - 128) * 64 + (buf[3] - 128) = c

\* Known encodings: U+0041, U+007F, U+0080, U+0645, U+07FF, U+0800, U+4E2D,
\* U+FFFF, U+10000, U+10FFFF.
KnownUtf8 ==
    {<< 65, << 65 >> >>, << 127, << 127 >> >>, << 128, << 194, 128 >> >>,
     << 1605, << 217, 133 >> >>, << 2047, << 223, 191 >> >>,
     << 2048, << 224, 160, 128 >> >>, << 20013, << 228, 184, 173 >> >>,
     << 65535, << 239, 191, 191 >> >>, << 65536, << 240, 144, 128, 128 >> >>,
     << 1114111, << 244, 143, 191, 191 >> >>}

\* C15: for every code point c in 0..0x10FFFF, codepoint_to_utf8(c) writes
\* the standard UTF-8 bytes of c (0x0645 gives D9 85, length 2), and
\* utf8_to_codepoint applied to these bytes succeeds and yields c.
C15_EncodeDecodeRoundTrip ==
    /\ (fn = "codepoint_to_utf8" /\ IsUnicode(arg_codepoint))
       => /\ ret = utf8_len
          /\ IsStandardUtf8(arg_utf8_char, utf8_len, arg_codepoint)
          /\ \A e \in KnownUtf8 :
                e[1] = arg_codepoint
                => /\ utf8_len = Len(e[2])
                   /\ \A k \in 1..Len(e[2]) : arg_utf8_char[k - 1] = e[2][k]
    /\ (fn = "utf8_to_codepoint" /\ IsUnicode(arg_codepoint))
       => (ret = 1 /\ out_codepoint = arg_codepoint)

\* C15 witness: U+0645 was encoded as D9 85 and decoded back to U+0645.
C15_Witness ==
    /\ fn = "utf8_to_codepoint" /\ arg_codepoint = 1605
    /\ utf8_len = 2 /\ arg_utf8_char[0] = 217 /\ arg_utf8_char[1] = 133
    /\ ret = 1 /\ out_codepoint = 1605

\* The length class of a first byte, by its value.
LengthClass(b) ==
    IF b \in 0..127 THEN 1
    ELSE IF b \in 192..223 THEN 2
    ELSE IF b \in 224..239 THEN 3
    ELSE IF b \in 240..247 THEN 4
    ELSE 1

\* C16: get_utf8_char_length returns a value in 1..4 for every byte: 1 for
\* 0xxxxxxx, 2 for 110xxxxx, 3 for 1110xxxx, 4 for 11110xxx and 1 for every
\* other byte; and for every code point c in 0..0x10FFFF its value on the
\* first byte written by codepoint_to_utf8(c) is the length that
\* codepoint_to_utf8 returned.
C16_LengthOfFirstByte ==
    fn = "get_utf8_char_length"
    => /\ ret \in 1..4
       /\ ret = LengthClass(arg_utf8_char[0])
       /\ IsUnicode(arg_codepoint) => ret = utf8_len

\* C16 witness: the first byte F0 written for U+10000 has length 4, the
\* length codepoint_to_utf8 returned.
C16_Witness ==
    /\ fn = "get_utf8_char_length" /\ arg_codepoint = 65536
    /\ arg_utf8_char[0] = 240 /\ utf8_len = 4 /\ ret = 4

\* Type of the character at offset pos, as the loop of process_runs
\* decodes it.
CharTypeAt(pos) ==
    get_char_type(utf8_to_codepoint(
        CopyToBuf(pos, get_utf8_char_length(Mem(pos)), NoStale)).codepoint)

\* The loop of process_runs is about to process a character of type ty, and
\* the step completes without a failed allocation.
Processes(ty) ==
    /\ pc = "segment" /\ i < length /\ CharTypeAt(i) = ty
    /\ pc' = "segment"

\* C17: when an LRE (resp. RLE) is processed with the stack not full, the
\* level (current_level+2)&~1 (resp. (current_level+1)|1) is pushed and is
\* the level in force afterwards: after the step current_level equals the
\* new top-of-stack value.
C17_PushedLevelInForce ==
    [][ \A ty \in {BIDI_TYPE_LRE, BIDI_TYPE_RLE} :
          (Processes(ty) /\ stack_top < MAX_DEPTH - 1)
          => /\ stack_top' = stack_top + 1
             /\ stack'[stack_top'] = (IF ty = BIDI_TYPE_LRE
                                      THEN EvenLevel(current_level)
                                      ELSE OddLevel(current_level))
             /\ current_level' = stack'[stack_top'] ]_vars

\* C18: when a PDF is processed with more than the base entry on the stack,
\* exactly one entry is popped and the level of the new top entry is in
\* force afterwards: after the step current_level equals stack[stack_top].
C18_PoppedLevelInForce ==
    [][ (Processes(BIDI_TYPE_PDF) /\ stack_top > 0)
        => /\ stack_top' = stack_top - 1
           /\ current_level' = stack'[stack_top'] ]_vars

\* C19: with no override active, every run whose first character is a
\* strong L character is recorded with an even level, and every run whose
\* first character is an R or AL character with an odd level, for every
\* input, the ones with embedding, isolate or pop characters included.
\* (override_status never returns to -1, so -1 means no override was ever
\* active.)
C19_LevelParityMatchesDirection ==
    (ValidCall /\ override_status = -1)
    => \A k \in 1..Len(runs) :
         LET ty == CharTypeAt(runs[k].start) IN
         /\ ty = BIDI_TYPE_L => runs[k].level % 2 = 0
         /\ ty \in {BIDI_TYPE_R, BIDI_TYPE_AL} => runs[k].level % 2 = 1

\* Run j comes out before run k: its level is higher, or the levels are
\* equal and j precedes k in the list.
EmittedBefore(j, k) ==
    \/ runs[j].level > runs[k].level
    \/ runs[j].level = runs[k].level /\ j < k

\* C20: reorder_runs emits every run exactly once, in order of decreasing
\* level and, within a level, in list order: of two runs that both produce
\* output, a's bytes precede b's in the output iff level(a) > level(b), or
\* level(a) = level(b) and a precedes b in the list.
C20_EmitsByLevelThenListOrder ==
    pc \in {"reorder", "free"}
    => /\ \A a \in 1..Len(emitted) :
            emitted[a].k \in 1..Len(runs) /\ emitted[a].from <= emitted[a].to
       /\ \A a \in 1..(Len(emitted) - 1) :
            /\ EmittedBefore(emitted[a].k, emitted[a + 1].k)
            /\ emitted[a].to = emitted[a + 1].from
       /\ pc = "free"
          => /\ Len(emitted) = Len(runs)
             /\ {emitted[a].k : a \in 1..Len(emitted)} = 1..Len(runs)
             /\ \A a, b \in 1..Len(emitted) :
                  (a # b /\ emitted[a].from < emitted[a].to
                         /\ emitted[b].from < emitted[b].to)
                  => (emitted[a].to <= emitted[b].from
                      <=> EmittedBefore(emitted[a].k, emitted[b].k))

\* C20 witness: reorder_runs finished on a list holding two runs of one
\* level that both produced output and a run of a higher level behind a
\* run of a lower level.
C20_Witness ==
    /\ pc = "free"
    /\ \E a, b \in 1..Len(emitted) :
         /\ a < b /\ runs[emitted[a].k].level = runs[emitted[b].k].level
         /\ emitted[a].from < emitted[a].to /\ emitted[b].from < emitted[b].to
    /\ \E a \in 1..(Len(emitted) - 1) : emitted[a].k > emitted[a + 1].k

\* The non-formatting code points of the byte range of run r, in input order.
RunCodePoints(r) ==
    SelectSeq(Decode(SubSeq(text, r.start + 1, r.start + r.length)),
              LAMBDA c : ~IsFormatChar(c))

\* Every code point of t is written in its shortest form (no overlong
\* sequence): t is the encoding of what it decodes to.
ShortestForm(t) == EncodeSeq(Decode(t)) = t

\* The bytes reorder_runs wrote for the a-th run it copied.
EmittedBytes(a) == SubSeq(output, emitted[a].from + 1, emitted[a].to)

\* C21: for well-formed input (every sequence complete and in its shortest
\* form), a run of odd level is emitted as its
\* non-formatting code points from last to first, the bytes of each code
\* point in original order, and a run of even level as its non-formatting
\* code points from first to last.
C21_RunEmittedByParity ==
    (pc \in {"reorder", "free"} /\ ValidCall /\ Len(text) = length
        /\ WellFormed(text) /\ ShortestForm(text))
    => \A a \in 1..Len(emitted) :
         LET r == runs[emitted[a].k] IN
         EmittedBytes(a) = EncodeSeq(IF r.level % 2 = 1
                                     THEN Reverse(RunCodePoints(r))
                                     ELSE RunCodePoints(r))

\* C21 witness: an odd-level run of two or more non-formatting code points
\* that differ was emitted (an RTL letter followed by a digit or a mark).
C21_Witness ==
    /\ pc = "free" /\ ValidCall /\ Len(text) = length /\ WellFormed(text)
    /\ ShortestForm(text)
    /\ \E a \in 1..Len(emitted) :
         LET r == runs[emitted[a].k] IN
         /\ r.level % 2 = 1
         /\ Len(RunCodePoints(r)) >= 2
         /\ RunCodePoints(r) # Reverse(RunCodePoints(r))
         /\ emitted[a].to > emitted[a].from

\* C22: runs are maximal: in the list returned by segmentation no two
\* consecutive runs have the same level.
C22_RunsAreMaximal ==
    (pc \in {"returned", "reorder", "free"} /\ ValidCall)
    => \A k \in 1..(Len(runs) - 1) : runs[k].level # runs[k + 1].level

\* Offset just behind the last run of the list; 0 for the empty list.
RunsCoverTo ==
    IF runs = << >> THEN 0
    ELSE runs[Len(runs)].start + runs[Len(runs)].length

\* C23: after every segmentation step and in the returned list, the runs
\* are in strictly increasing start order, each has length > 0, the first
\* starts at offset 0 and each starts exactly where the previous one ends;
\* during the scan they cover the bytes before run_start, and the returned
\* list covers every scanned byte (offsets 0..i-1) exactly once.
C23_RunsPartitionInput ==
    (pc \in {"segment", "final", "returned", "reorder", "free"} /\ ValidCall)
    => /\ \A k \in 1..Len(runs) : runs[k].length > 0
       /\ runs # << >> => runs[1].start = 0
       /\ \A k \in 1..(Len(runs) - 1) :
            /\ runs[k].start < runs[k + 1].start
            /\ runs[k + 1].start = runs[k].start + runs[k].length
       /\ pc \in {"segment", "final"} => RunsCoverTo = run_start
       /\ (pc \in {"returned", "reorder", "free"} /\ ~alloc_failed)
          => RunsCoverTo = i

\* C23 witness: segmentation returned a list of three or more runs that
\* covers the whole input.
C23_Witness ==
    /\ pc = "returned" /\ ValidCall /\ ~alloc_failed
    /\ Len(runs) >= 3 /\ RunsCoverTo = length /\ i = length

\* The nine types with a case of their own in the switch of process_runs.
FormattingTypes ==
    {BIDI_TYPE_LRE, BIDI_TYPE_RLE, BIDI_TYPE_PDF, BIDI_TYPE_LRO, BIDI_TYPE_RLO,
     BIDI_TYPE_LRI, BIDI_TYPE_RLI, BIDI_TYPE_FSI, BIDI_TYPE_PDI}

\* C24: once an LRO (resp. RLO) has taken effect, every later non-formatting
\* character, whatever its natural type, is treated as strong L (resp. R)
\* when the level is computed: it opens a run at (current_level+2)&~1
\* (resp. (current_level+1)|1).  The override stays in force after a PDF:
\* override_status changes only when an LRO/RLO is processed and is never
\* reset to none within a call.
C24_OverrideStaysInForce ==
    [][ (pc = "segment" /\ i < length /\ pc' = "segment")
        => /\ (override_status # -1 /\ CharTypeAt(i) \notin FormattingTypes)
              => /\ current_level' = (IF override_status = 0
                                      THEN EvenLevel(current_level)
                                      ELSE OddLevel(current_level))
                 /\ run_start' = i
           /\ override_status # -1 => override_status' # -1
           /\ override_status' # override_status
              => /\ CharTypeAt(i) \in {BIDI_TYPE_LRO, BIDI_TYPE_RLO}
                 /\ override_status' = (IF CharTypeAt(i) = BIDI_TYPE_LRO
                                        THEN 0 ELSE 1) ]_vars

\* C24 witness: in RLO PDF 'a' with base direction LTR the PDF has popped
\* the entry of the RLO, and the Latin letter after it was still given an
\* odd level.
C24_Witness ==
    /\ pc = "returned" /\ ValidCall /\ ~alloc_failed /\ is_rtl = 0
    /\ text = EncodeSeq(<< 8238, 8236, 97 >>)
    /\ override_status = 1 /\ stack_top = 0
    /\ current_level % 2 = 1
    /\ runs[Len(runs)].start = 6 /\ runs[Len(runs)].level % 2 = 1

\* The locals of process_runs on entry to the switch.
SwitchEntry ==
    [stack |-> stack, stack_top |-> stack_top, current_level |-> current_level,
     override_status |-> override_status, isolate_status |-> isolate_status,
     new_level |-> current_level, create_new_run |-> 0]

\* The step of the loop leaves the locals and the run list as the switch
\* result r prescribes, the character being n bytes long.
StepGives(r, n) ==
    /\ stack' = r.stack /\ stack_top' = r.stack_top
    /\ override_status' = r.override_status
    /\ isolate_status' = r.isolate_status
    /\ current_level' = (IF r.create_new_run # 0 THEN r.new_level
                                                 ELSE r.current_level)
    /\ run_start' = (IF r.create_new_run # 0 THEN i ELSE run_start)
    /\ i' = i + n
    /\ runs' = (IF r.create_new_run # 0 /\ i > run_start
                THEN Append(runs, [start |-> run_start, length |-> i - run_start,
                                   level |-> r.current_level, id |-> nalloc + 1])
                ELSE runs)

\* C25: segmentation treats FSI exactly like RLI: the step that processes a
\* U+2068 changes the stack, the flags, the levels and the run list exactly
\* as the step on a U+2067 (same byte length, odd level pushed, isolate flag
\* set) from the same state would, whatever follows the FSI; both are
\* dropped from the output, so the run lists and outputs of the two texts
\* agree.
C25_FsiTreatedAsRli ==
    [][ (Processes(BIDI_TYPE_FSI))
        => /\ StepGives(SwitchCharType(SwitchEntry, BIDI_TYPE_RLI),
                        Len(codepoint_to_utf8(8295)))
           /\ IsFormattingType(BIDI_TYPE_FSI) /\ IsFormattingType(BIDI_TYPE_RLI)
      ]_vars

\* C25 witness: the FSI of the text 'a' FSI was processed at level 2 and
\* pushed the odd level 3 with the isolate flag set, as an RLI does.
C25_Witness ==
    /\ pc = "segment" /\ ValidCall /\ is_rtl = 0
    /\ text = EncodeSeq(<< 97, 8296 >>) /\ i = 4
    /\ stack_top = 1 /\ stack[1] = 3 /\ isolate_status = 1
    /\ runs = << [start |-> 0, length |-> 1, level |-> 3, id |-> 1] >>

\* The types of the seven push cases.
PushTypes ==
    {BIDI_TYPE_LRE, BIDI_TYPE_RLE, BIDI_TYPE_LRO, BIDI_TYPE_RLO, BIDI_TYPE_LRI,
     BIDI_TYPE_RLI, BIDI_TYPE_FSI}

\* The guard of the case of a formatting character of type ty fails.
GuardFails(ty) ==
    \/ ty \in PushTypes /\ ~(stack_top < MAX_DEPTH - 1)
    \/ ty = BIDI_TYPE_PDF /\ ~(stack_top > 0)
    \/ ty = BIDI_TYPE_PDI /\ ~(isolate_status # 0 /\ stack_top > 0)

\* C26: a formatting character whose guard fails (a push with the stack
\* full, a PDF with only the base entry, a PDI with isolate_status false or
\* only the base entry) leaves stack, stack_top, current_level,
\* override_status, isolate_status, run_start and the run list unchanged;
\* only the scan offset advances.
C26_FailedGuardChangesNothing ==
    [][ (pc = "segment" /\ i < length /\ GuardFails(CharTypeAt(i)))
        => /\ pc' = "segment"
           /\ i' > i
           /\ UNCHANGED << stack, stack_top, current_level, override_status,
                           isolate_status, run_start, runs >> ]_vars

\* C26 witness: the scan of the deep text has passed pushes that found the
\* stack full; the stack is still full and the current run still starts at
\* the last push that took effect.
C26_Witness ==
    /\ pc = "segment" /\ ValidCall /\ IsDeepText /\ i = 3 * DeepNest
    /\ stack_top = MAX_DEPTH - 1
    /\ run_start = 3 * (MAX_DEPTH - 2)
    /\ Len(runs) = MAX_DEPTH - 2

\* Two isolate initiators followed by two PDI.
NestedIsolates ==
    {EncodeSeq(<< a, b, 8297, 8297 >>) : a, b \in {8294, 8295, 8296}}

\* C27: a PDI that takes effect pops one entry and leaves isolate_status
\* false, so a second PDI is ignored: after two isolate initiators and two
\* PDI one pushed entry is still on the stack.  While isolate_status is
\* false only a PDF removes an entry, and only an isolate initiator sets
\* the flag again.
C27_SecondPdiIgnored ==
    [][ (pc = "segment" /\ i < length /\ pc' = "segment")
        => /\ (CharTypeAt(i) = BIDI_TYPE_PDI /\ isolate_status # 0
                   /\ stack_top > 0)
              => (stack_top' = stack_top - 1 /\ isolate_status' = 0)
           /\ (CharTypeAt(i) = BIDI_TYPE_PDI /\ isolate_status = 0)
              => (stack_top' = stack_top /\ isolate_status' = 0)
           /\ (isolate_status = 0 /\ stack_top' < stack_top)
              => CharTypeAt(i) = BIDI_TYPE_PDF
           /\ (isolate_status = 0 /\ isolate_status' # 0)
              => CharTypeAt(i) \in {BIDI_TYPE_LRI, BIDI_TYPE_RLI, BIDI_TYPE_FSI}
           /\ (text \in NestedIsolates /\ i' = length)
              => (stack_top' = 1 /\ isolate_status' = 0) ]_vars

\* C27 witness: RLI RLI PDI PDI was scanned to its end; the second PDI was
\* ignored and one pushed entry is left on the stack.
C27_Witness ==
    /\ pc = "returned" /\ ValidCall /\ ~alloc_failed
    /\ text = EncodeSeq(<< 8295, 8295, 8297, 8297 >>)
    /\ stack_top = 1 /\ isolate_status = 0

\* C28: for any input bytes, an input ending in a truncated multi-byte
\* sequence included, every run satisfies 0 <= start and
\* start + length <= input length, and segmentation reads no input byte at
\* an offset >= length (during segmentation every read is at or after
\* offset 0, so oob_read means a read at an offset >= length).
C28_RunsAndReadsWithinInput ==
    (pc \in {"segment", "final", "returned"} /\ ValidCall)
    => /\ \A k \in 1..Len(runs) :
            runs[k].start >= 0 /\ runs[k].start + runs[k].length <= length
       /\ ~oob_read

RECURSIVE RtlWalkEnd(_, _)
\* The position at which the backward walk of run r, now at pos, ends
\* (the walk only moves down, so this is the lowest position it takes).
RtlWalkEnd(r, pos) ==
    IF ~(pos > r.start) THEN pos
    ELSE RtlWalkEnd(r, pos - PrevCharLen(pos, r.start))

RECURSIVE RtlWalkMaxLen(_, _)
\* The greatest prev_char_len the backward walk of run r finds from pos on.
RtlWalkMaxLen(r, pos) ==
    IF ~(pos > r.start) THEN 0
    ELSE Max2(PrevCharLen(pos, r.start),
              RtlWalkMaxLen(r, pos - PrevCharLen(pos, r.start)))

\* C29: in the backward walk of an odd-level run, for any input bytes, the
\* sequence length found by scanning back over continuation bytes is never
\* more than 4 (the 4-byte buffer utf8_buf is never overrun) and the walk
\* position never moves before the start offset of the run.
C29_BackwardWalkStaysInRun ==
    (pc = "reorder" /\ ValidCall)
    => /\ ~buf_overrun
       /\ \A k \in 1..Len(runs) :
            runs[k].level % 2 = 1
            => /\ RtlWalkMaxLen(runs[k], runs[k].start + runs[k].length) <= 4
               /\ RtlWalkEnd(runs[k], runs[k].start + runs[k].length)
                  >= runs[k].start

\* Every iteration of the walk of run r moves the position: forward by the
\* length of the sequence at it, backward by the length scanned back.
WalkMakesProgress(r) ==
    \A pos \in r.start..(r.start + r.length) :
        IF r.level % 2 = 1
        THEN pos > r.start => PrevCharLen(pos, r.start) >= 1
        ELSE pos < r.start + r.length => get_utf8_char_length(Mem(pos)) >= 1

\* C30: for every input and either base direction the call terminates: the
\* segmentation offset strictly increases on every iteration, the forward
\* and backward walks make strict progress on every iteration, the level
\* loop runs from max_level down to 0 (within a level the list is walked
\* forward), and the call returns.
C30_CallTerminates ==
    /\ [][ /\ (pc = "segment" /\ pc' = "segment") => i' > i
           /\ (pc = "returned" /\ pc' = "reorder") => level' = MaxLevel(runs)
           /\ (pc = "reorder" /\ pc' = "reorder")
              => /\ level' >= 0
                 /\ level' < level \/ (level' = level /\ rnext' > rnext) ]_vars
    /\ [](pc = "reorder" => \A k \in 1..Len(runs) : WalkMakesProgress(runs[k]))
    /\ <>(pc = "done")

\* C30 witness: a call on a text of several runs, walked in both
\* directions, has returned with every input byte copied.
C30_Witness ==
    /\ pc = "done" /\ ValidCall /\ ~alloc_failed
    /\ Len(emitted) >= 3 /\ result = length
    /\ \E a \in 1..(Len(emitted) - 1) : emitted[a].k > emitted[a + 1].k

====
